---- MODULE Spec2Model ----
(***************************************************************************)
(* State-machine model of resume_generator.py, a Streamlit script.  The    *)
(* session state (job_cache, resume_history, email_history) survives from  *)
(* one run of the script to the next; every user interaction runs the      *)
(* script once, top to bottom.  Python strings are modelled as sequences   *)
(* of one-character strings so that lower(), startswith(), split(),        *)
(* strip(), slicing and the regular expression of extract_linkedin_jobs    *)
(* are computed the way the code computes them.  The fixed text of the     *)
(* prompt templates is abbreviated to a short header; the values the       *)
(* f-strings interpolate are kept.  The 'timestamp' fields (datetime.now)  *)
(* are left out: nothing in the script reads them back except for display. *)
(***************************************************************************)
EXTENDS Integers, Sequences, FiniteSets, TLC

VARIABLES
    job_cache,            \* st.session_state.job_cache: full key -> entry
    resume_history,       \* st.session_state.resume_history
    email_history,        \* st.session_state.email_history
    use_cache,            \* script global: the sidebar checkbox of this run
    max_jobs_to_process,  \* script global: the sidebar slider of this run
    api_key_input,        \* script global: the API key field of this run
    pc,                   \* position of the running script
    clicked,              \* the button whose click triggered the run, once seen
    job_links,            \* links of the uploaded HTML
    i,                    \* loop index of the batch loop (0-based)
    html_hash,            \* cache key of the uploaded HTML
    job_data_list,        \* records collected for the uploaded HTML
    selected_job_info,    \* the record the form works on, or NoJob
    form,                 \* the submitted profile form
    hr_info,              \* result of extract_hr_info in this run
    last_call,            \* observation: the call_ai_api made by the last step
    events,               \* observation: what this run did, in order
    returned,             \* history: the texts calls returned while caching
    origin,               \* history: full key -> kind and key it was stored under
    reruns,               \* number of script runs so far
    requests,             \* number of requests sent to a backend in this run
    args                  \* arguments of a function studied on its own

vars == <<job_cache, resume_history, email_history, use_cache,
          max_jobs_to_process, api_key_input, pc, clicked, job_links, i,
          html_hash, job_data_list, selected_job_info, form, hr_info,
          last_call, events, returned, origin, reruns, requests, args>>

---------------------------------------------------------------------------
(* Python values *)

\* Python's None, where a str is expected (a value no text is equal to).
None == <<"<None>">>

\* bool(x) of a str-or-None value: None and "" are falsy.
Truthy(x) == x # None /\ x # <<>>

\* str(x) / f"{x}" of a str-or-None value.
Str(x) == IF x = None THEN <<"N","o","n","e">> ELSE x

Min(a, b) == IF a <= b THEN a ELSE b

\* s[:n]
Slice(s, n) == SubSeq(s, 1, Min(n, Len(s)))

\* s[n:] (0-based n)
SliceFrom(s, n) == SubSeq(s, n + 1, Len(s))

UpperCase == <<"A","B","C","D","E","F","G","H","I","J","K","L","M","N","O","P","Q","R","S","T","U","V","W","X","Y","Z">>
LowerCase == <<"a","b","c","d","e","f","g","h","i","j","k","l","m","n","o","p","q","r","s","t","u","v","w","x","y","z">>

\* the lower-case letter of each upper-case letter
LowerOf == [c \in {UpperCase[k] : k \in 1..26} |->
               LowerCase[CHOOSE k \in 1..26 : UpperCase[k] = c]]

LowerChar(c) == IF c \in DOMAIN LowerOf THEN LowerOf[c] ELSE c

\* str.lower()
lower(s) == [k \in 1..Len(s) |-> LowerChar(s[k])]

\* str.startswith(p)
startswith(s, p) == Len(s) >= Len(p) /\ SubSeq(s, 1, Len(p)) = p

\* whether s has sub at (1-based) position p
MatchAt(s, sub, p) ==
    p + Len(sub) - 1 <= Len(s) /\ SubSeq(s, p, p + Len(sub) - 1) = sub

\* "sub in s"
Contains(sub, s) == \E p \in 1..(Len(s) + 1) : MatchAt(s, sub, p)

\* position of the first c in s from position p on, 0 if there is none
RECURSIVE IndexOf(_, _, _)
IndexOf(s, c, p) ==
    IF p > Len(s) THEN 0
    ELSE IF s[p] = c THEN p
    ELSE IndexOf(s, c, p + 1)

\* str.splitlines(), for texts whose only line boundary is "\n"
RECURSIVE splitlines(_)
splitlines(s) ==
    IF s = <<>> THEN <<>>
    ELSE LET n == IndexOf(s, "\n", 1) IN
         IF n = 0 THEN <<s>>
         ELSE <<SubSeq(s, 1, n - 1)>> \o splitlines(SliceFrom(s, n))

Whitespace == {" ", "\n", "\t", "\r"}

RECURSIVE lstrip(_)
lstrip(s) ==
    IF s # <<>> /\ s[1] \in Whitespace THEN lstrip(Tail(s)) ELSE s

RECURSIVE rstrip(_)
rstrip(s) ==
    IF s # <<>> /\ s[Len(s)] \in Whitespace
    THEN rstrip(SubSeq(s, 1, Len(s) - 1)) ELSE s

\* str.strip()
strip(s) == rstrip(lstrip(s))

\* line.split(":", 1)[1] of a line that holds a ":"
AfterColon(line) == SliceFrom(line, IndexOf(line, ":", 1))

Digits == <<"0","1","2","3","4","5","6","7","8","9">>

DigitSet == {Digits[k] : k \in 1..10}

IsDigit(c) == c \in DigitSet

\* str(n) of a natural number
RECURSIVE IntToStr(_)
IntToStr(n) ==
    IF n < 10 THEN <<Digits[n + 1]>>
    ELSE IntToStr(n \div 10) \o <<Digits[(n % 10) + 1]>>

\* sep.join(parts)
RECURSIVE join(_, _)
join(sep, parts) ==
    IF parts = <<>> THEN <<>>
    ELSE IF Len(parts) = 1 THEN parts[1]
    ELSE parts[1] \o sep \o join(sep, Tail(parts))

\* the members of a sequence
Range(s) == {s[k] : k \in 1..Len(s)}

---------------------------------------------------------------------------
(* generate_cache_key *)

\* The printable ASCII characters, code 32 to 126, in code order.
Printable ==
    <<" ","!","\"","#","$","%","&","'","(",")","*","+",",","-",".","/","0","1","2","3","4","5","6","7","8","9",":",";","<","=",">","?","@","A","B","C","D","E","F","G","H","I","J","K","L","M","N","O","P","Q","R","S","T","U","V","W","X","Y","Z","[","\\","]","^","_">>
        \o <<"(grave accent, code 96: no text of the model holds it)">>
        \o <<"a","b","c","d","e","f","g","h","i","j","k","l","m","n","o","p","q","r","s","t","u","v","w","x","y","z","{","|","}","~">>

\* the code of each character of the model's texts
CodeOf == [c \in {Printable[k] : k \in 1..Len(Printable)} |->
              31 + (CHOOSE k \in 1..Len(Printable) : Printable[k] = c)]
          @@ ("\n" :> 10) @@ ("\t" :> 9)

HexDigits == <<"0","1","2","3","4","5","6","7","8","9","a","b","c","d","e","f">>

\* two lower-case hexadecimal digits of a byte
HexOf == [c \in DOMAIN CodeOf |->
             HexDigits[(CodeOf[c] \div 16) + 1] \o HexDigits[(CodeOf[c] % 16) + 1]]

\* The hexadecimal digits of the bytes lo..hi of text.encode(), by halves.
RECURSIVE HexBytes(_, _, _)
HexBytes(s, lo, hi) ==
    IF lo > hi THEN ""
    ELSE IF lo = hi THEN HexOf[s[lo]]
    ELSE HexBytes(s, lo, (lo + hi) \div 2)
             \o HexBytes(s, ((lo + hi) \div 2) + 1, hi)

\* hashlib.md5(text.encode()).hexdigest().  The compression of md5 is not
\* modelled: the digest is the hexadecimal form of the bytes themselves,
\* lower-case hexadecimal like md5's, a function of the text alone, and
\* free of collisions, which is what the script relies on.
generate_cache_key(text) == HexBytes(text, 1, Len(text))

---------------------------------------------------------------------------
(* Session state: the dictionary job_cache *)

\* {} : the dictionary without keys
EmptyDict == [k \in {} |-> None]

\* d[k] = v
Put(d, k, v) == [x \in (DOMAIN d) \cup {k} |-> IF x = k THEN v ELSE d[x]]

\* A faulty variant: nothing is removed.
dict_clear_kept(d) == d

\* d.clear(), lines 202 and 684
dict_clear(d) == EmptyDict

\* dict.get(k) of a missing key: None
NoneEntry == [none |-> TRUE]

\* A faulty variant: the kind is left out of the key.
cache_key_full_unkinded(cache_type, cache_key) == cache_key

\* f"{cache_type}_{cache_key}"
cache_key_full(cache_type, cache_key) == cache_type \o "_" \o cache_key

\* The call kinds call_ai_api is used with, and the kind of the batch entry.
Kinds == {"job_summary", "hr_extraction", "resume_generation",
          "email_generation", "html_jobs"}

\* A faulty variant: the cache is read although caching is off.
get_cached_response_always(cache_key, cache_type) ==
    LET full == cache_key_full(cache_type, cache_key) IN
    IF full \in DOMAIN job_cache THEN job_cache[full] ELSE NoneEntry

get_cached_response(cache_key, cache_type) ==
    IF ~use_cache THEN NoneEntry
    ELSE LET full == cache_key_full(cache_type, cache_key) IN
         IF full \in DOMAIN job_cache THEN job_cache[full] ELSE NoneEntry

\* A faulty variant: the reply is not stored.
set_cached_response_lost(cache_key, response, cache_type) == job_cache

\* The value of job_cache after set_cached_response.
set_cached_response(cache_key, response, cache_type) ==
    IF use_cache
    THEN Put(job_cache, cache_key_full(cache_type, cache_key),
             [response |-> response])
    ELSE job_cache

---------------------------------------------------------------------------
(* call_ai_api *)

\* What a request to the backend can come to: an exception (network error,
\* rejected key, rate limit), a reply without a text part, or a text.
Raise == [type |-> "raise", text |-> None]
NonText == [type |-> "nontext", text |-> None]
TextReply(t) == [type |-> "text", text |-> t]

\* A faulty variant: the test of the key is the wrong way round.
BackendOf_swapped(key) ==
    IF startswith(key, <<"s","k","-">>) THEN "gemini" ELSE "openai"

\* api_key_input.startswith("sk-") selects the backend.
BackendOf(key) == IF startswith(key, <<"s","k","-">>) THEN "openai" ELSE "gemini"

\* Whether the try block raises: the request itself, or response.text of
\* a Gemini reply without a text part (message.content of such an OpenAI
\* reply is None and raises nothing).
Raises(backend, outcome) ==
    \/ outcome.type = "raise"
    \/ backend = "gemini" /\ outcome.type = "nontext"

NoCall == [made |-> FALSE]

\* call_ai_api(prompt, model_type) when the backend, if asked, answers
\* `outcome`.  result: the value returned; cache: job_cache afterwards;
\* backend: the backend asked ("none" on a cache hit); error: st.error shown.
call_ai_api(prompt, model_type, outcome) ==
    LET cache_key == generate_cache_key(prompt)
        cached == get_cached_response(cache_key, model_type)
        backend == BackendOf(api_key_input)
        base == [made |-> TRUE, prompt |-> prompt, model_type |-> model_type,
                 cache_key |-> cache_key, caching |-> use_cache]
    IN  IF cached # NoneEntry
        THEN base @@ [result |-> cached.response, cache |-> job_cache,
                      backend |-> "none", error |-> FALSE, hit |-> TRUE]
        ELSE IF Raises(backend, outcome)
        THEN base @@ [result |-> None, cache |-> job_cache,
                      backend |-> backend, error |-> TRUE, hit |-> FALSE]
        ELSE base @@ [result |-> outcome.text,
                      cache |-> set_cached_response(cache_key, outcome.text,
                                                    model_type),
                      backend |-> backend, error |-> FALSE, hit |-> FALSE]

---------------------------------------------------------------------------
(* extract_linkedin_jobs *)

JobsViewPath == <<"/","j","o","b","s","/","v","i","e","w","/">>

\* last position of the run of digits that starts at position p
RECURSIVE DigitRunEnd(_, _)
DigitRunEnd(s, p) ==
    IF p + 1 <= Len(s) /\ IsDigit(s[p + 1]) THEN DigitRunEnd(s, p + 1) ELSE p

\* re.search(r'/jobs/view/(\d+)', href): group 1 of the leftmost match, or None
re_search_job_id(href) ==
    LET n == Len(JobsViewPath)
        hits == {p \in 1..Len(href) :
                    /\ MatchAt(href, JobsViewPath, p)
                    /\ p + n <= Len(href)
                    /\ IsDigit(href[p + n])}
    IN  IF hits = {} THEN None
        ELSE LET p == CHOOSE q \in hits : \A r \in hits : q <= r
             IN  SubSeq(href, p + n, DigitRunEnd(href, p + n))

\* A faulty variant: the accepted href is kept as it is.
clean_url_raw(href) ==
    IF ~Contains(<<"l","i","n","k","e","d","i","n",".","c","o","m","/","j","o","b","s","/","v","i","e","w">>, href) THEN None
    ELSE IF re_search_job_id(href) = None THEN None
    ELSE href

\* clean_url of one href, or None when the href is skipped
clean_url(href) ==
    IF ~Contains(<<"l","i","n","k","e","d","i","n",".","c","o","m","/","j","o","b","s","/","v","i","e","w">>, href) THEN None
    ELSE LET job_id == re_search_job_id(href) IN
         IF job_id = None THEN None
         ELSE <<"h","t","t","p","s",":","/","/","w","w","w",".","l","i","n","k","e","d","i","n",".","c","o","m","/","j","o","b","s","/","v","i","e","w","/">> \o job_id

\* job_links at the end of the loop: one clean_url per accepted href, in order
collect_job_links(hrefs) ==
    SelectSeq([k \in 1..Len(hrefs) |-> clean_url(hrefs[k])],
              LAMBDA u : u # None)

\* the orders list(set(...)) can give the members of a set
Orderings(S) ==
    {p \in [1..Cardinality(S) -> S] : \A a, b \in 1..Cardinality(S) :
                                          a # b => p[a] # p[b]}

\* A faulty variant: the cap is not applied.
extract_linkedin_jobs_uncapped(hrefs) ==
    Orderings(Range(collect_job_links(hrefs)))

\* The values extract_linkedin_jobs can return for an HTML document whose
\* <a href> values are `hrefs`: set iteration order is not fixed by the code.
extract_linkedin_jobs(hrefs) ==
    {Slice(p, max_jobs_to_process) :
        p \in Orderings(Range(collect_job_links(hrefs)))}

---------------------------------------------------------------------------
(* process_job_link *)

\* `return None` of process_job_link
NoneJob == [none |-> TRUE]

\* Outcome of lines 140-144 when requests.get, raise_for_status or the
\* parse of the page raises (timeout, unreachable, error status).
FetchError == [ok |-> FALSE, page_text |-> None]
Fetched(t) == [ok |-> TRUE, page_text |-> t]

ai_summary_prompt(page_text) ==
    <<"\n","E","x","t","r","a","c","t"," ","j","o","b"," ","i","n","f","o","r","m","a","t","i","o","n","\n","T","e","x","t"," ","(","f","i","r","s","t"," ","3","0","0","0"," ","c","h","a","r","a","c","t","e","r","s",")",":","\n">>
        \o Slice(page_text, 3000) \o <<"\n">>

\* next((line.split(":", 1)[1].strip() for line in lines
\*       if line.lower().startswith(prefix)), default)
FirstField(lines, prefix, default) ==
    LET hits == {k \in 1..Len(lines) : startswith(lower(lines[k]), prefix)}
    IN  IF hits = {} THEN default
        ELSE strip(AfterColon(lines[CHOOSE k \in hits : \A j \in hits : k <= j]))

\* A faulty variant: the position is not made 1-based.
JobN_zero_based(index) == <<"J","o","b"," ">> \o IntToStr(index)

\* f"Job {index+1}"
JobN(index) == <<"J","o","b"," ">> \o IntToStr(index + 1)

\* A faulty variant: the except branch uses the placeholder of the parse.
degraded_job_renamed(link, index) ==
    [display_name |-> JobN(index) \o <<" ","-"," ","F","a","i","l","e","d"," ","t","o"," ","L","o","a","d"," ","D","e","t","a","i","l","s">>,
     link |-> link,
     title |-> JobN(index),
     company |-> <<"U","n","k","n","o","w","n"," ","C","o","m","p","a","n","y">>,
     location |-> <<>>,
     raw_text |-> <<>>]

\* the record of the except branch
degraded_job(link, index) ==
    [display_name |-> JobN(index) \o <<" ","-"," ","F","a","i","l","e","d"," ","t","o"," ","L","o","a","d"," ","D","e","t","a","i","l","s">>,
     link |-> link,
     title |-> JobN(index),
     company |-> <<"U","n","k","n","o","w","n">>,
     location |-> <<>>,
     raw_text |-> <<>>]

\* A faulty variant: the location is shown even when there is none.
display_parts_all(title, company, location) == <<title, company, location>>

\* lines 167-169: display_parts
display_parts(title, company, location) ==
    IF location # <<>> THEN <<title, company, location>>
    ELSE <<title, company>>

\* lines 161-181: the record parsed from a non-empty reply
parsed_job(link, index, page_text, ai_response) ==
    LET lines == splitlines(ai_response)
        title == FirstField(lines, <<"j","o","b"," ","t","i","t","l","e",":">>, JobN(index))
        company == FirstField(lines, <<"c","o","m","p","a","n","y",":">>, <<"U","n","k","n","o","w","n"," ","C","o","m","p","a","n","y">>)
        location == FirstField(lines, <<"l","o","c","a","t","i","o","n",":">>, <<>>)
    IN  [display_name |-> join(<<" ","|"," ">>,
                               display_parts(title, company, location))
                              \o <<" ","(","#">> \o IntToStr(index + 1) \o <<")">>,
         link |-> link,
         title |-> title,
         company |-> company,
         location |-> location,
         raw_text |-> Slice(page_text, 8000)]

\* A faulty variant: whatever process_job_link returns is appended.
append_job_always(job_list, job_info) == Append(job_list, job_info)

\* lines 241-242: `if job_info:` keeps a record, drops None
append_job(job_list, job_info) ==
    IF job_info # NoneJob THEN Append(job_list, job_info) ELSE job_list

\* process_job_link(link, index) when the page fetch comes to `fetch` and
\* the backend, if asked, answers `outcome`.  job: the value returned;
\* call: the call_ai_api made, or NoCall; warning: st.warning shown.
process_job_link(link, index, fetch, outcome) ==
    IF ~fetch.ok
    THEN [job |-> degraded_job(link, index), call |-> NoCall,
          cache |-> job_cache, warning |-> TRUE]
    ELSE LET call == call_ai_api(ai_summary_prompt(fetch.page_text),
                                 "job_summary", outcome)
         IN  IF ~Truthy(call.result)
             THEN [job |-> NoneJob, call |-> call, cache |-> call.cache,
                   warning |-> FALSE]
             ELSE [job |-> parsed_job(link, index, fetch.page_text,
                                      call.result),
                   call |-> call, cache |-> call.cache, warning |-> FALSE]

---------------------------------------------------------------------------
(* The prompts of the generation *)

NL == <<"\n">>

\* hr_prompt of extract_hr_info
hr_prompt(job_text) ==
    <<"\n","E","x","t","r","a","c","t"," ","H","R"," ","c","o","n","t","a","c","t","\n","J","o","b"," ","T","e","x","t",":","\n">> \o Slice(job_text, 4000) \o NL

resume_prompt(job, f) ==
    <<"\n","C","r","e","a","t","e"," ","a"," ","r","e","s","u","m","e","\n">>
        \o job.title \o NL \o job.company \o NL \o job.location \o NL
        \o f.name \o NL \o f.email \o NL
        \o Slice(job.raw_text, 6000) \o NL

\* A faulty variant: the HR information is left out of the prompt.
email_prompt_without_hr(job, f, hr) ==
    <<"\n","C","r","e","a","t","e"," ","a"," ","c","o","l","d"," ","e","m","a","i","l","\n">>
        \o job.title \o NL \o job.company \o NL \o job.location \o NL
        \o f.name \o NL \o f.email \o NL
        \o Slice(job.raw_text, 4000) \o NL
        \o f.name \o NL \o f.email \o NL

email_prompt(job, f, hr) ==
    <<"\n","C","r","e","a","t","e"," ","a"," ","c","o","l","d"," ","e","m","a","i","l","\n">>
        \o job.title \o NL \o job.company \o NL \o job.location \o NL
        \o f.name \o NL \o f.email \o NL
        \o Str(hr) \o NL
        \o Slice(job.raw_text, 4000) \o NL
        \o f.name \o NL \o f.email \o NL

\* str(html_content) of the uploaded bytes: the document is modelled by the
\* href values of its <a> tags, which is all the script reads from it
str_html(hrefs) ==
    <<"b","'">> \o join(<<" ">>, [k \in 1..Len(hrefs) |->
                              <<"<","a"," ","h","r","e","f","=">> \o hrefs[k] \o <<">">>]) \o <<"'">>

\* f"html_jobs_{html_hash}"
html_jobs_key(hash) == "html_jobs_" \o hash

\* all([name, email])
all_required(f) == f.name # <<>> /\ f.email # <<>>

\* A faulty variant: the entry replaces the history.
history_append_alone(history, entry) == <<entry>>

\* lines 479, 611: st.session_state.<history>.append(entry)
history_append(history, entry) == Append(history, entry)

resume_entry(f, job, ai_resume) ==
    [candidate_name |-> f.name, job_title |-> job.title,
     company |-> job.company, resume |-> ai_resume]

email_entry(f, job, ai_email, hr) ==
    [sender_name |-> f.name, job_title |-> job.title,
     company |-> job.company, email |-> ai_email, hr_info |-> hr]

---------------------------------------------------------------------------
(* Bounds and inputs *)

\* Number of runs of the script (user interactions) in a session.
MaxReruns == 2

\* Number of requests sent to a backend in one run of the script.
MaxRequests == 2

\* Values of the API key field: one of each shape.
ApiKeys == {<<"s","k","-","l","i","v","e">>, <<"A","I","z","a">>}

\* Values of the "Max jobs to process" slider (range 1..20, default 10).
CapChoices == {1, 10}

\* Uploaded HTML documents, each the href values of its <a> tags.
Html1 ==
    <<<<"h","t","t","p","s",":","/","/","w","w","w",".","l","i","n","k","e","d","i","n",".","c","o","m","/","j","o","b","s","/","v","i","e","w","/","1","2","/","?","q","u","e","r","y","=","1">>,
      <<"h","t","t","p","s",":","/","/","w","w","w",".","l","i","n","k","e","d","i","n",".","c","o","m","/","j","o","b","s","/","v","i","e","w","/","1","2">>,
      <<"/","j","o","b","s","/","v","i","e","w","/","5","6">>,
      <<"h","t","t","p","s",":","/","/","i","n",".","l","i","n","k","e","d","i","n",".","c","o","m","/","j","o","b","s","/","v","i","e","w","/","3","4","?","x","=","/","j","o","b","s","/","v","i","e","w","/","9","9">>,
      <<"h","t","t","p","s",":","/","/","w","w","w",".","l","i","n","k","e","d","i","n",".","c","o","m","/","j","o","b","s","/","v","i","e","w","/","d","e","v","-","a","t","-","a","c","m","e">>>>
Html2 ==
    <<<<"h","t","t","p","s",":","/","/","w","w","w",".","l","i","n","k","e","d","i","n",".","c","o","m","/","j","o","b","s","/","s","e","a","r","c","h","/">>,
      <<"h","t","t","p","s",":","/","/","e","x","a","m","p","l","e",".","c","o","m","/","j","o","b","s","/","v","i","e","w","/","7","7">>>>
Htmls == {Html1, Html2}

\* Values of the "Paste LinkedIn job URL" field.
JobUrls == {<<>>, <<"h","t","t","p","s",":","/","/","w","w","w",".","l","i","n","k","e","d","i","n",".","c","o","m","/","j","o","b","s","/","v","i","e","w","/","1","2">>,
            <<"h","t","t","p","s",":","/","/","e","x","a","m","p","l","e",".","c","o","m","/","j","o","b","s","/","1","2">>}

\* Texts of fetched job pages.
PageTexts == {<<"D","e","v"," ","a","t"," ","A","c","m","e">>}
FetchOutcomes == {FetchError} \cup {Fetched(t) : t \in PageTexts}

\* Replies of the backend to the extraction prompt.
SummaryReplies ==
    {<<>>,
     <<"J","o","b"," ","T","i","t","l","e",":"," ","D","e","v","\n","c","o","m","p","a","n","y",":"," "," ","A","c","m","e"," ","\n","L","O","C","A","T","I","O","N",":"," ","N","Y">>}
SummaryOutcomes == {Raise} \cup {TextReply(t) : t \in SummaryReplies}

\* Replies of the backend to the HR prompt and to the generation prompts.
HrOutcomes == {Raise, TextReply(<<"H","R"," ","C","o","n","t","a","c","t",":"," ","A","n","n">>)}
GenOutcomes == {Raise, NonText, TextReply(<<>>), TextReply(<<"T","e","x","t"," ","A">>)}

\* Submitted profile forms: the required fields, filled or left empty.
Forms == {[name |-> <<"J","a","n","e"," ","D","o","e">>, email |-> <<"j","a","n","e","@","x",".","c","o","m">>],
          [name |-> <<"J","a","n","e"," ","D","o","e">>, email |-> <<>>],
          [name |-> <<>>, email |-> <<"j","a","n","e","@","x",".","c","o","m">>]}
NoForm == [name |-> <<>>, email |-> <<>>]

\* No function is studied on its own during a session.
NoArgs == [none |-> TRUE]

---------------------------------------------------------------------------
(* Observation of a run *)

\* the texts earlier calls returned for this prompt and kind while caching
PriorTexts(model_type, prompt) ==
    {t.text : t \in {r \in returned : r.model_type = model_type
                                       /\ r.prompt = prompt}}

\* last_call after a step that made `call`
Observed(call) ==
    IF call = NoCall THEN NoCall
    ELSE [made |-> TRUE, prompt |-> call.prompt,
          model_type |-> call.model_type, cache_key |-> call.cache_key,
          caching |-> call.caching, result |-> call.result,
          backend |-> call.backend, error |-> call.error, hit |-> call.hit,
          prior |-> PriorTexts(call.model_type, call.prompt)]

\* origin after a step that made `call`: a miss that stored its reply
Origin(call) ==
    IF call # NoCall /\ call.caching /\ ~call.hit /\ ~call.error
    THEN Put(origin, cache_key_full(call.model_type, call.cache_key),
             [kind |-> call.model_type, cache_key |-> call.cache_key])
    ELSE origin

\* returned after a step that made `call`
Returned(call) ==
    IF call # NoCall /\ call.caching /\ call.result # None
    THEN returned \cup {[model_type |-> call.model_type,
                         prompt |-> call.prompt, text |-> call.result]}
    ELSE returned

\* whether the step that made `call` is within the bound on requests
WithinBound(call) ==
    (call # NoCall /\ call.backend # "none") => requests < MaxRequests

\* requests after a step that made `call`
Requests(call) ==
    IF call # NoCall /\ call.backend # "none" THEN requests + 1 ELSE requests

Event(ev, n) == [ev |-> ev, n |-> n]

\* events after a step that made `call`: the request and the st.error
CallEvents(call) ==
    IF call = NoCall THEN <<>>
    ELSE (IF call.backend # "none" THEN <<Event(call.backend, 0)>> ELSE <<>>)
         \o (IF call.error THEN <<Event("st.error", 0)>> ELSE <<>>)

---------------------------------------------------------------------------
(* The script *)

run_local == <<job_links, i, html_hash, job_data_list, selected_job_info,
               form, hr_info>>
settings == <<use_cache, max_jobs_to_process, api_key_input>>
histories == <<resume_history, email_history>>

\* lines 18-23: a new session, no run of the script under way
Fresh ==
    /\ job_cache = EmptyDict
    /\ resume_history = <<>>
    /\ email_history = <<>>
    /\ clicked = "none"
    /\ job_links = <<>>
    /\ i = 0
    /\ html_hash = ""
    /\ job_data_list = <<>>
    /\ selected_job_info = NoneJob
    /\ form = NoForm
    /\ hr_info = None
    /\ last_call = NoCall
    /\ events = <<>>
    /\ returned = {}
    /\ origin = EmptyDict
    /\ reruns = 0
    /\ requests = 0

Init ==
    /\ Fresh
    /\ use_cache = TRUE
    /\ max_jobs_to_process = 10
    /\ api_key_input = <<>>
    /\ pc = "idle"
    /\ args = NoArgs

\* lines 27-37: a user interaction starts a run of the script, which reads
\* the sidebar widgets into its globals (an empty key stops the script).
BeginRerun ==
    /\ pc = "idle"
    /\ reruns < MaxReruns
    /\ use_cache' \in BOOLEAN
    /\ max_jobs_to_process' \in CapChoices
    /\ api_key_input' \in ApiKeys
    /\ reruns' = reruns + 1
    /\ pc' = "top"
    /\ last_call' = NoCall
    /\ events' = <<>>
    /\ clicked' = "none"
    /\ UNCHANGED <<job_cache, histories, run_local, returned, origin,
                   requests>>
    /\ UNCHANGED args

\* lines 199-203: the Clear Cache button is on the page only while caching
\* is on and the cache holds something; its click is what started the run
ClearCacheButton ==
    /\ pc = "top"
    /\ \E click \in BOOLEAN :
        /\ click => (use_cache /\ job_cache # EmptyDict)
        /\ IF click
           THEN /\ job_cache' = dict_clear(job_cache)
                /\ returned' = {}
                /\ origin' = EmptyDict
                /\ clicked' = "clear"
                /\ events' = Append(events, Event("clear", 0))
           ELSE UNCHANGED <<job_cache, returned, origin, clicked, events>>
    /\ pc' = "source"
    /\ last_call' = NoCall
    /\ UNCHANGED <<histories, settings, run_local, reruns, requests>>
    /\ UNCHANGED args

\* lines 282-322: the History page only reads the histories; also the
\* Upload page without a file and the link page with an empty field
SourceHistory ==
    /\ pc = "source"
    /\ pc' = "footer"
    /\ last_call' = NoCall
    /\ UNCHANGED <<job_cache, histories, settings, clicked, run_local,
                   events, returned, origin, reruns, requests>>
    /\ UNCHANGED args

\* lines 272-280
SourceEnterLink ==
    /\ pc = "source"
    /\ \E job_url \in JobUrls, fetch \in FetchOutcomes,
          outcome \in SummaryOutcomes :
        IF job_url # <<>> /\ Contains(<<"l","i","n","k","e","d","i","n",".","c","o","m","/","j","o","b","s","/","v","i","e","w">>, job_url)
        THEN \E r \in {process_job_link(job_url, 0, fetch, outcome)} :
             /\ WithinBound(r.call)
             /\ requests' = Requests(r.call)
             /\ job_cache' = r.cache
             /\ selected_job_info' = r.job
             /\ last_call' = Observed(r.call)
             /\ returned' = Returned(r.call)
             /\ origin' = Origin(r.call)
             /\ events' = events \o <<Event("process", 0)>>
                              \o CallEvents(r.call)
                              \o (IF r.warning THEN <<Event("st.warning", 0)>>
                                  ELSE <<>>)
             /\ pc' = IF r.job # NoneJob THEN "form" ELSE "footer"
        ELSE /\ pc' = "footer"
             /\ last_call' = NoCall
             /\ UNCHANGED <<job_cache, selected_job_info, returned, origin,
                            events, requests>>
    /\ UNCHANGED <<histories, settings, clicked, job_links, i, html_hash,
                   job_data_list, form, hr_info, reruns>>
    /\ UNCHANGED args

\* lines 210-234: the upload of an HTML file, up to the start of the loop
SourceUpload ==
    /\ pc = "source"
    /\ \E html_content \in Htmls :
       \E links \in extract_linkedin_jobs(html_content) :
       \E hash \in {generate_cache_key(str_html(html_content))} :
        /\ job_links' = links
        /\ IF links = <<>>
           THEN /\ events' = Append(events, Event("st.warning", 0))
                /\ pc' = "footer"
                /\ UNCHANGED <<html_hash, job_data_list>>
           ELSE /\ html_hash' = hash
                /\ IF html_jobs_key(hash) \in DOMAIN job_cache /\ use_cache
                   THEN /\ job_data_list' =
                               job_cache[html_jobs_key(hash)].response
                        /\ events' = Append(events, Event("cached_jobs", 0))
                        /\ pc' = "select"
                   ELSE /\ job_data_list' = <<>>
                        /\ events' = events
                        /\ pc' = "loop"
    /\ i' = 0
    /\ last_call' = NoCall
    /\ UNCHANGED <<job_cache, histories, settings, clicked,
                   selected_job_info, form, hr_info, returned, origin,
                   reruns, requests>>
    /\ UNCHANGED args

\* lines 236-242: one pass of the loop body up to the sleep
ProcessLink ==
    /\ pc = "loop"
    /\ \E fetch \in FetchOutcomes, outcome \in SummaryOutcomes :
        \E r \in {process_job_link(job_links[i + 1], i, fetch, outcome)} :
        /\ WithinBound(r.call)
        /\ requests' = Requests(r.call)
        /\ job_cache' = r.cache
        /\ job_data_list' = append_job(job_data_list, r.job)
        /\ last_call' = Observed(r.call)
        /\ returned' = Returned(r.call)
        /\ origin' = Origin(r.call)
        /\ events' = events \o <<Event("process", i)>> \o CallEvents(r.call)
                         \o (IF r.warning THEN <<Event("st.warning", i)>>
                             ELSE <<>>)
    /\ pc' = "sleep"
    /\ UNCHANGED <<histories, settings, clicked, job_links, i, html_hash,
                   selected_job_info, form, hr_info, reruns>>
    /\ UNCHANGED args

\* line 244, and the step of the for loop
Sleep ==
    /\ pc = "sleep"
    /\ events' = Append(events, Event("sleep", i))
    /\ i' = i + 1
    /\ pc' = IF i + 1 < Len(job_links) THEN "loop" ELSE "endloop"
    /\ last_call' = NoCall
    /\ UNCHANGED <<job_cache, histories, settings, clicked, job_links,
                   html_hash, job_data_list, selected_job_info, form,
                   hr_info, returned, origin, reruns, requests>>
    /\ UNCHANGED args

\* lines 246-253
EndBatch ==
    /\ pc = "endloop"
    /\ job_cache' = IF use_cache
                    THEN Put(job_cache, html_jobs_key(html_hash),
                             [response |-> job_data_list])
                    ELSE job_cache
    /\ origin' = IF use_cache
                 THEN Put(origin, html_jobs_key(html_hash),
                          [kind |-> "html_jobs", cache_key |-> html_hash])
                 ELSE origin
    /\ pc' = "select"
    /\ last_call' = NoCall
    /\ UNCHANGED <<histories, settings, clicked, run_local, events,
                   returned, reruns, requests>>
    /\ UNCHANGED args

\* lines 255-260: the selectbox over the display names
SelectJob ==
    /\ pc = "select"
    /\ IF job_data_list = <<>>
       THEN /\ pc' = "footer"
            /\ UNCHANGED selected_job_info
       ELSE \E selected_display \in
                   {job_data_list[k].display_name :
                        k \in 1..Len(job_data_list)} :
            \E first \in {CHOOSE k \in 1..Len(job_data_list) :
                    /\ job_data_list[k].display_name = selected_display
                    /\ \A j \in 1..(k - 1) :
                          job_data_list[j].display_name # selected_display} :
                /\ selected_job_info' = job_data_list[first]
                /\ pc' = "form"
    /\ last_call' = NoCall
    /\ UNCHANGED <<job_cache, histories, settings, clicked, job_links, i,
                   html_hash, job_data_list, form, hr_info, events,
                   returned, origin, reruns, requests>>
    /\ UNCHANGED args

\* line 411 with no form submitted: nothing is generated
SkipForm ==
    /\ pc = "form"
    /\ pc' = "footer"
    /\ last_call' = NoCall
    /\ UNCHANGED <<job_cache, histories, settings, clicked, run_local,
                   events, returned, origin, reruns, requests>>
    /\ UNCHANGED args

\* lines 411-415: a submitted form without name or email
SubmitInvalid ==
    /\ pc = "form"
    /\ clicked = "none"
    /\ \E f \in Forms :
        /\ ~all_required(f)
        /\ form' = f
    /\ clicked' = "submit"
    /\ events' = Append(events, Event("st.error", 0))
    /\ pc' = "footer"
    /\ last_call' = NoCall
    /\ UNCHANGED <<job_cache, histories, settings, job_links, i,
                   html_hash, job_data_list, selected_job_info, hr_info,
                   returned, origin, reruns, requests>>
    /\ UNCHANGED args

\* lines 417-479: the resume request
GenerateResume ==
    /\ pc = "form"
    /\ clicked = "none"
    /\ \E f \in Forms, outcome \in GenOutcomes :
        /\ all_required(f)
        /\ \E call \in {call_ai_api(resume_prompt(selected_job_info, f),
                                     "resume_generation", outcome)} :
           \E ai_resume \in {call.result} :
            /\ WithinBound(call)
            /\ requests' = Requests(call)
            /\ form' = f
            /\ job_cache' = call.cache
            /\ last_call' = Observed(call)
            /\ returned' = Returned(call)
            /\ origin' = Origin(call)
            /\ IF Truthy(ai_resume)
               THEN /\ resume_history' =
                           history_append(resume_history,
                               resume_entry(f, selected_job_info, ai_resume))
                    /\ events' = events \o CallEvents(call)
                                     \o <<Event("st.success", 0)>>
               ELSE /\ resume_history' = resume_history
                    /\ events' = events \o CallEvents(call)
    /\ clicked' = "submit"
    /\ pc' = "footer"
    /\ UNCHANGED <<email_history, settings, job_links, i, html_hash,
                   job_data_list, selected_job_info, hr_info, reruns>>
    /\ UNCHANGED args

\* lines 524-528: the cold email request, up to extract_hr_info
ExtractHrInfo ==
    /\ pc = "form"
    /\ clicked = "none"
    /\ \E f \in Forms, outcome \in HrOutcomes :
        /\ all_required(f)
        /\ \E call \in {call_ai_api(hr_prompt(selected_job_info.raw_text),
                                     "hr_extraction", outcome)} :
            /\ WithinBound(call)
            /\ requests' = Requests(call)
            /\ form' = f
            /\ hr_info' = call.result
            /\ job_cache' = call.cache
            /\ last_call' = Observed(call)
            /\ returned' = Returned(call)
            /\ origin' = Origin(call)
            /\ events' = events \o <<Event("hr_extraction", 0)>>
                             \o CallEvents(call)
    /\ clicked' = "submit"
    /\ pc' = "email"
    /\ UNCHANGED <<histories, settings, job_links, i, html_hash,
                   job_data_list, selected_job_info, reruns>>
    /\ UNCHANGED args

\* lines 530-611: the email prompt, its call and the history entry
GenerateEmail ==
    /\ pc = "email"
    /\ \E outcome \in GenOutcomes :
        \E call \in {call_ai_api(email_prompt(selected_job_info, form,
                                               hr_info),
                                  "email_generation", outcome)} :
        \E ai_email \in {call.result} :
            /\ WithinBound(call)
            /\ requests' = Requests(call)
            /\ job_cache' = call.cache
            /\ last_call' = Observed(call)
            /\ returned' = Returned(call)
            /\ origin' = Origin(call)
            /\ IF Truthy(ai_email)
               THEN /\ email_history' =
                           history_append(email_history,
                               email_entry(form, selected_job_info,
                                           ai_email, hr_info))
                    /\ events' = events \o <<Event("email_generation", 0)>>
                                     \o CallEvents(call)
                                     \o <<Event("st.success", 0)>>
               ELSE /\ email_history' = email_history
                    /\ events' = events \o <<Event("email_generation", 0)>>
                                     \o CallEvents(call)
    /\ pc' = "footer"
    /\ UNCHANGED <<resume_history, settings, clicked, run_local, reruns>>
    /\ UNCHANGED args

\* lines 669-687: the footer with the Reset All Data button.  Then the run
\* ends: the script's globals are gone, the session state stays.
ResetButton ==
    /\ pc = "footer"
    /\ \E click \in BOOLEAN :
        /\ click => clicked = "none"
        /\ IF click
           THEN /\ job_cache' = dict_clear(job_cache)
                /\ resume_history' = <<>>
                /\ email_history' = <<>>
                /\ returned' = {}
                /\ origin' = EmptyDict
                /\ clicked' = "reset"
           ELSE /\ clicked' = "none"
                /\ UNCHANGED <<job_cache, histories, returned, origin>>
    /\ pc' = "idle"
    /\ use_cache' = TRUE
    /\ max_jobs_to_process' = 10
    /\ api_key_input' = <<>>
    /\ job_links' = <<>>
    /\ i' = 0
    /\ html_hash' = ""
    /\ job_data_list' = <<>>
    /\ selected_job_info' = NoneJob
    /\ form' = NoForm
    /\ hr_info' = None
    /\ last_call' = NoCall
    /\ events' = <<>>
    /\ requests' = 0
    /\ UNCHANGED reruns
    /\ UNCHANGED args

Next ==
    \/ BeginRerun
    \/ ClearCacheButton
    \/ SourceHistory
    \/ SourceEnterLink
    \/ SourceUpload
    \/ ProcessLink
    \/ Sleep
    \/ EndBatch
    \/ SelectJob
    \/ SkipForm
    \/ SubmitInvalid
    \/ GenerateResume
    \/ ExtractHrInfo
    \/ GenerateEmail
    \/ ResetButton

Spec == Init /\ [][Next]_vars

---------------------------------------------------------------------------
(* extract_linkedin_jobs on its own: every document of up to MaxHrefs
   links, under every cap *)

\* Number of <a href> values of a document.
MaxHrefs == 2

\* The href values a document is made of.
Hrefs ==
    Range(Html1) \cup Range(Html2)
        \cup {<<"h","t","t","p","s",":","/","/","w","w","w",".","l","i","n","k","e","d","i","n",".","c","o","m","/","j","o","b","s","/","v","i","e","w","/","d","e","v","?","r","e","f","=","/","j","o","b","s","/","v","i","e","w","/","7">>}

HrefLists == UNION {[1..n -> Hrefs] : n \in 0..MaxHrefs}

InitLinks ==
    /\ Fresh
    /\ use_cache = TRUE
    /\ max_jobs_to_process \in CapChoices
    /\ api_key_input = <<>>
    /\ pc = "links"
    /\ args \in {[hrefs |-> h] : h \in HrefLists}

\* line 216: job_links = extract_linkedin_jobs(html_content)
ExtractLinks ==
    /\ pc = "links"
    /\ job_links' \in extract_linkedin_jobs(args.hrefs)
    /\ pc' = "returned"
    /\ UNCHANGED <<job_cache, histories, settings, clicked, i, html_hash,
                   job_data_list, selected_job_info, form, hr_info,
                   last_call, events, returned, origin, reruns, requests,
                   args>>

NextLinks == ExtractLinks

SpecLinks == InitLinks /\ [][NextLinks]_vars

---------------------------------------------------------------------------
(* process_job_link on its own: every position, fetch outcome and reply *)

\* Positions of a link in its batch (0-based, as enumerate gives them).
ParseIndexes == {0, 1, 9}

\* Replies of the backend to the extraction prompt: all fields, none,
\* each field alone, fields in other cases, an indented prefix, an empty
\* value, a repeated field, a value holding a colon.
ParseReplies ==
    SummaryReplies \cup
    {<<" ">>,
     <<"S","o","r","r","y",","," ","n","o"," ","j","o","b"," ","f","o","u","n","d">>,
     <<"J","o","b"," ","T","i","t","l","e",":"," ","D","e","v">>,
     <<"C","o","m","p","a","n","y",":"," ","A","c","m","e">>,
     <<"L","o","c","a","t","i","o","n",":"," ","N","Y">>,
     <<"J","o","b"," ","T","i","t","l","e",":"," ","D","e","v","\n","C","o","m","p","a","n","y",":"," ","A","c","m","e">>,
     <<"J","O","B"," ","T","I","T","L","E",":"," ","D","e","v","\n","l","o","c","a","t","i","o","n",":"," ","N","Y","\n","E","m","p","l","o","y","m","e","n","t"," ","T","y","p","e",":"," ","f","u","l","l","-","t","i","m","e">>,
     <<" ","C","o","m","p","a","n","y",":"," ","A","c","m","e","\n","L","o","c","a","t","i","o","n",":">>,
     <<"C","o","m","p","a","n","y",":"," ","A","c","m","e","\n","C","o","m","p","a","n","y",":"," ","B","o","l","t","\n","J","o","b"," ","T","i","t","l","e",":"," ","Q","A",":"," ","l","e","a","d">>}

ParseOutcomes == {Raise, NonText} \cup {TextReply(t) : t \in ParseReplies}

ParseArgs ==
    [link : {<<"h","t","t","p","s",":","/","/","w","w","w",".","l","i","n","k","e","d","i","n",".","c","o","m","/","j","o","b","s","/","v","i","e","w","/","1","2">>},
     index : ParseIndexes,
     fetch : FetchOutcomes,
     outcome : ParseOutcomes]

InitParse ==
    /\ Fresh
    /\ use_cache \in BOOLEAN
    /\ max_jobs_to_process = 10
    /\ api_key_input \in ApiKeys
    /\ pc = "call"
    /\ args \in ParseArgs

\* lines 240, 277: job_info = process_job_link(link, index)
CallProcessJobLink ==
    /\ pc = "call"
    /\ \E r \in {process_job_link(args.link, args.index, args.fetch,
                                  args.outcome)} :
        /\ selected_job_info' = r.job
        /\ job_cache' = r.cache
        /\ requests' = Requests(r.call)
        /\ last_call' = Observed(r.call)
        /\ returned' = Returned(r.call)
        /\ origin' = Origin(r.call)
        /\ events' = events \o <<Event("process", args.index)>>
                         \o CallEvents(r.call)
                         \o (IF r.warning
                             THEN <<Event("st.warning", args.index)>>
                             ELSE <<>>)
    /\ pc' = "returned"
    /\ UNCHANGED <<histories, settings, clicked, job_links, i, html_hash,
                   job_data_list, form, hr_info, reruns, args>>

NextParse == CallProcessJobLink

SpecParse == InitParse /\ [][NextParse]_vars

---------------------------------------------------------------------------
(* Properties of the cache *)

\* C1: with caching on and no clearing of the cache in between, once
\* call_ai_api(prompt, kind) has returned a text T, a later call with the
\* same prompt and kind returns exactly T and asks neither backend.
C1_Idempotent ==
    (last_call.made /\ last_call.caching /\ last_call.prior # {}) =>
        /\ last_call.prior = {last_call.result}
        /\ last_call.backend = "none"

\* a repeated call that returned a non-empty text
C1_SecondCall ==
    /\ last_call.made
    /\ last_call.caching
    /\ last_call.prior # {}
    /\ Truthy(last_call.result)

\* the key a lookup under `kind` reads for the digest `digest`
LookupKey(kind, digest) ==
    IF kind = "html_jobs" THEN html_jobs_key(digest)
    ELSE cache_key_full(kind, digest)

\* the kinds the entries of the cache were stored under
StoredKinds == {origin[k].kind : k \in DOMAIN job_cache}

\* C2: in every reachable cache, a lookup under one kind (job_summary,
\* hr_extraction, resume_generation, email_generation, html_jobs) never
\* finds an entry stored under another kind, whatever digest it looks up,
\* also the digest of an entry of another kind.
C2_Isolation ==
    /\ DOMAIN origin = DOMAIN job_cache
    /\ \A k \in DOMAIN job_cache : \A kind \in Kinds :
          LET key == LookupKey(kind, origin[k].cache_key) IN
          key \in DOMAIN job_cache => origin[key].kind = kind

\* a cache with entries of three kinds, the batch entry among them
C2_ThreeKinds ==
    /\ Cardinality(StoredKinds) >= 3
    /\ "html_jobs" \in StoredKinds

\* C3: with caching off (use_cache false) the cache is bypassed: no step
\* of the run changes job_cache, every call_ai_api asks the backend, and
\* an uploaded document with links is processed link by link whether or
\* not the cache holds its html_jobs entry.
C3_Bypass ==
    [][(pc \notin {"idle", "footer"} /\ ~use_cache) =>
          /\ job_cache' = job_cache
          /\ last_call'.made => last_call'.backend \in {"openai", "gemini"}
          /\ (pc = "source" /\ job_links' # <<>>) =>
                (pc' = "loop" /\ job_data_list' = <<>>)]_vars

\* with caching off, a call whose answer the cache holds, or an upload
\* whose batch entry the cache holds
C3_CacheIgnored ==
    /\ ~use_cache
    /\ \/ /\ last_call.made
          /\ cache_key_full(last_call.model_type, last_call.cache_key)
                \in DOMAIN job_cache
       \/ /\ pc = "loop"
          /\ html_jobs_key(html_hash) \in DOMAIN job_cache

---------------------------------------------------------------------------
(* Properties of the batch *)

\* the decimal numerals of the positions the model has
Numerals ==
    <<<<"1">>, <<"2">>, <<"3">>, <<"4">>, <<"5">>, <<"6">>, <<"7">>, <<"8">>, <<"9">>, <<"1","0">>>>

\* the last thing shown was the warning of the failed fetch of link n
FetchFailed(evs, n) == evs # <<>> /\ evs[Len(evs)] = Event("st.warning", n)

\* process_job_link has been called for every link of the batch
ProcessedAll ==
    \A k \in 1..Len(job_links) :
        \E e \in 1..Len(events) : events[e] = Event("process", k - 1)

\* C4 as stated: every link of a batch yields a record whatever fails for
\* it, page fetch or AI extraction, and the later links are still
\* processed, so the job list has as many records as links.
C4_RecordPerLink ==
    pc = "endloop" =>
        /\ ProcessedAll
        /\ Len(job_data_list) = Len(job_links)

\* C4, amended: every link of a batch is processed whatever failed before
\* it; a link whose fetch fails or whose AI extraction returns a non-empty
\* text adds exactly one record, its own, at the end of the job list; a
\* link whose AI extraction raises or returns nothing adds none.
C4_RecordUnlessExtractionFails ==
    [][/\ (pc = "loop" /\ pc' = "sleep") =>
             IF \/ FetchFailed(events', i)
                \/ last_call'.made /\ Truthy(last_call'.result)
             THEN /\ Len(job_data_list') = Len(job_data_list) + 1
                  /\ SubSeq(job_data_list', 1, Len(job_data_list))
                        = job_data_list
                  /\ job_data_list'[Len(job_data_list')].link
                        = job_links[i + 1]
             ELSE job_data_list' = job_data_list
       /\ pc' = "endloop" => ProcessedAll']_vars

\* a batch of two links whose first link left no record and whose second
\* link left one
C4_LinkDropped ==
    /\ pc = "endloop"
    /\ Len(job_links) = 2
    /\ Len(job_data_list) = 1
    /\ job_data_list[1].link = job_links[2]

\* the record of a failed fetch at position n (1-based)
IsDegraded(job, n) ==
    /\ job # NoneJob
    /\ job.title = <<"J","o","b"," ">> \o Numerals[n]
    /\ job.company = <<"U","n","k","n","o","w","n">>
    /\ job.location = <<>>
    /\ job.raw_text = <<>>

\* C5: when the page fetch of the link at position n (1-based) fails,
\* process_job_link returns the record with title 'Job n', company
\* 'Unknown', location '' and empty raw_text, makes no AI call for the
\* link, and the links after it are still processed.
C5_DegradedRecord ==
    /\ (pc = "sleep" /\ FetchFailed(events, i)) =>
          /\ last_call = NoCall
          /\ job_data_list # <<>>
          /\ IsDegraded(job_data_list[Len(job_data_list)], i + 1)
    /\ (pc = "form" /\ FetchFailed(events, 0)) =>
          /\ last_call = NoCall
          /\ IsDegraded(selected_job_info, 1)
    /\ pc = "endloop" => ProcessedAll

\* a batch whose first fetch failed and whose second link was parsed
C5_FailedThenParsed ==
    /\ pc = "endloop"
    /\ Len(job_links) = 2
    /\ \E e \in 1..Len(events) : events[e] = Event("st.warning", 0)
    /\ Len(job_data_list) = 2
    /\ IsDegraded(job_data_list[1], 1)
    /\ job_data_list[2].raw_text # <<>>

---------------------------------------------------------------------------
(* Properties of the generation *)

\* C6 as stated: every call_ai_api that fails to give a text, because the
\* backend raised or because its reply was empty or held no text, shows
\* an error message.
C6_FailureReported ==
    (last_call.made /\ ~Truthy(last_call.result)) => last_call.error

\* h2 is h with one entry added at the end
Appended(h, h2) == Len(h2) = Len(h) + 1 /\ SubSeq(h2, 1, Len(h)) = h

\* C7: the histories change in two ways only.  A generation request that
\* gets a non-empty text, from the backend or from the cache, appends one
\* entry holding that text at the end of the history of its kind and
\* leaves the other history alone; a failed one appends nothing; and no
\* other step changes a history, except the reset, which empties both.
C7_AppendOnly ==
    [][IF pc = "form" /\ last_call'.made
             /\ last_call'.model_type = "resume_generation"
       THEN IF Truthy(last_call'.result)
            THEN /\ Appended(resume_history, resume_history')
                 /\ resume_history'[Len(resume_history')].resume
                       = last_call'.result
                 /\ email_history' = email_history
            ELSE UNCHANGED histories
       ELSE IF pc = "email"
       THEN IF Truthy(last_call'.result)
            THEN /\ Appended(email_history, email_history')
                 /\ email_history'[Len(email_history')].email
                       = last_call'.result
                 /\ resume_history' = resume_history
            ELSE UNCHANGED histories
       ELSE \/ UNCHANGED histories
            \/ /\ pc = "footer"
               /\ resume_history' = <<>>
               /\ email_history' = <<>>]_vars

\* a second resume, from the cache, behind the first one
C7_SecondEntry ==
    /\ pc = "footer"
    /\ last_call.made
    /\ last_call.model_type = "resume_generation"
    /\ last_call.hit
    /\ Len(resume_history) = 2

---------------------------------------------------------------------------
(* Properties of extract_linkedin_jobs *)

CanonicalPrefix == <<"h","t","t","p","s",":","/","/","w","w","w",".","l","i","n","k","e","d","i","n",".","c","o","m","/","j","o","b","s","/","v","i","e","w","/">>

\* https://www.linkedin.com/jobs/view/<digits>
IsCanonical(link) ==
    /\ startswith(link, CanonicalPrefix)
    /\ Len(link) > Len(CanonicalPrefix)
    /\ \A k \in (Len(CanonicalPrefix) + 1)..Len(link) : IsDigit(link[k])

\* the hrefs with /jobs/view/<digits>, and those of them the code accepts
WithId(hrefs) == {h \in Range(hrefs) : re_search_job_id(h) # None}
OnLinkedIn(hrefs) ==
    {h \in WithId(hrefs) : Contains(<<"l","i","n","k","e","d","i","n",".","c","o","m","/","j","o","b","s","/","v","i","e","w">>, h)}

\* the canonical links of a set of hrefs with ids
LinksOf(hs) == {CanonicalPrefix \o re_search_job_id(h) : h \in hs}

\* the result is canonical and without duplicates, and it is made of the
\* links of the hrefs `hs`: of no other, and of all unless the cap cuts
ResultIs(hs) ==
    /\ \A k \in 1..Len(job_links) : IsCanonical(job_links[k])
    /\ \A a, b \in 1..Len(job_links) : a # b => job_links[a] # job_links[b]
    /\ Range(job_links) \subseteq LinksOf(hs)
    /\ Cardinality(LinksOf(hs)) <= max_jobs_to_process
          => LinksOf(hs) \subseteq Range(job_links)

\* C8 as stated: the result holds only links of the canonical form, every
\* href containing /jobs/view/<digits> is mapped to the canonical link of
\* that id whatever follows the id, hrefs without a numeric id are
\* dropped, and no link appears twice.
C8_EveryHrefWithId == pc = "returned" => ResultIs(WithId(args.hrefs))

\* C8, amended: as stated, for the hrefs that also contain
\* linkedin.com/jobs/view; the others are dropped like those without a
\* numeric id.  The id is that of the first /jobs/view/<digits>.
C8_LinkedInHrefsWithId == pc = "returned" => ResultIs(OnLinkedIn(args.hrefs))

\* two different hrefs of the same job give one link
C8_TwoHrefsOneLink ==
    /\ pc = "returned"
    /\ Len(args.hrefs) = 2
    /\ args.hrefs[1] # args.hrefs[2]
    /\ args.hrefs[1] # CanonicalPrefix \o <<"1","2">>
    /\ job_links = <<CanonicalPrefix \o <<"1","2">>>>

---------------------------------------------------------------------------
(* Properties of the parse of the extraction reply *)

\* the reply has a line that starts, in any case, with the prefix
HasLine(reply, prefix) ==
    \E line \in Range(splitlines(reply)) : startswith(lower(line), prefix)

\* process_job_link got a non-empty reply from the AI extraction
GotReply == pc = "returned" /\ last_call.made /\ Truthy(last_call.result)

\* what C9 says of the record, with `placeholder` for the company
DefaultsAre(placeholder) ==
    GotReply =>
        /\ selected_job_info # NoneJob
        /\ ~last_call.error
        /\ ~HasLine(last_call.result, <<"c","o","m","p","a","n","y",":">>)
              => selected_job_info.company = placeholder
        /\ ~HasLine(last_call.result, <<"j","o","b"," ","t","i","t","l","e",":">>)
              => selected_job_info.title
                    = <<"J","o","b"," ">> \o Numerals[args.index + 1]

\* C9 as stated: a reply without a Company: line gives the company
\* 'Unknown', a reply without a Job Title: line gives the title 'Job n'
\* (n the 1-based position), and a record is produced without error.
C9_DefaultUnknown == DefaultsAre(<<"U","n","k","n","o","w","n">>)

\* C9, amended: the same with the company 'Unknown Company'.
C9_DefaultUnknownCompany == DefaultsAre(<<"U","n","k","n","o","w","n"," ","C","o","m","p","a","n","y">>)

\* a reply with neither line, for the tenth link
C9_NeitherLine ==
    /\ GotReply
    /\ args.index = 9
    /\ ~HasLine(last_call.result, <<"c","o","m","p","a","n","y",":">>)
    /\ ~HasLine(last_call.result, <<"j","o","b"," ","t","i","t","l","e",":">>)

---------------------------------------------------------------------------
(* Properties of the buttons, the batch order and the backend requests *)

\* C12: the Clear Cache button empties job_cache and leaves both
\* histories as they are; the Reset All Data button empties job_cache and
\* both histories; and since nothing is left in the cache, a call made
\* afterwards with caching on, also one made before with the same prompt
\* and kind, finds no entry and asks the backend again.
C12_ClearAndReset ==
    [][/\ (pc = "top" /\ clicked' = "clear") =>
             (job_cache' = EmptyDict /\ UNCHANGED histories)
       /\ (pc = "footer" /\ clicked' = "reset") =>
             /\ job_cache' = EmptyDict
             /\ resume_history' = <<>>
             /\ email_history' = <<>>
       /\ (/\ last_call'.made
           /\ cache_key_full(last_call'.model_type, last_call'.cache_key)
                 \notin DOMAIN job_cache) =>
             last_call'.backend \in {"openai", "gemini"}]_vars

\* the second run: Clear Cache was clicked, the resume of the first run,
\* for the job the extraction had found, is still in the history, and the
\* extraction prompt of the first run is sent to the backend again
C12_AskedAgainAfterClear ==
    /\ reruns = 2
    /\ clicked = "clear"
    /\ Len(resume_history) = 1
    /\ resume_history[1].company = <<"A","c","m","e">>
    /\ last_call.made
    /\ last_call.model_type = "job_summary"
    /\ last_call.caching
    /\ last_call.backend \in {"openai", "gemini"}

\* the positions in the log of this run where a link's processing starts
ProcessAt == {e \in 1..Len(events) : events[e].ev = "process"}

\* C13: a batch processes at most max_jobs_to_process links, each once and
\* in the order of the list, one after the other, and between the
\* processing of two consecutive links there is the pacing sleep.
C13_SequentialAndPaced ==
    /\ Cardinality(ProcessAt) <= max_jobs_to_process
    /\ \A e \in ProcessAt :
          events[e].n = Cardinality({d \in ProcessAt : d < e})
    /\ \A e1, e2 \in ProcessAt :
          e1 < e2 => \E sl \in (e1 + 1)..(e2 - 1) :
                        events[sl] = Event("sleep", events[e1].n)
    /\ pc = "endloop" =>
          /\ Cardinality(ProcessAt) = Len(job_links)
          /\ Len(job_links) <= max_jobs_to_process

\* a finished batch of two links
C13_TwoLinksProcessed ==
    /\ pc = "endloop"
    /\ Len(job_links) = 2
    /\ Cardinality(ProcessAt) = 2

\* C14: a call_ai_api sends no request on a cache hit and exactly one
\* otherwise, to OpenAI when the key starts with sk- and to Gemini for any
\* other key; a failed request is not sent again.
C14_OneRequest ==
    [][last_call'.made =>
          /\ last_call'.hit =
                (/\ use_cache
                 /\ cache_key_full(last_call'.model_type,
                                   last_call'.cache_key) \in DOMAIN job_cache)
          /\ IF last_call'.hit
             THEN /\ last_call'.backend = "none"
                  /\ requests' = requests
             ELSE /\ last_call'.backend =
                        IF Slice(api_key_input, 3) = <<"s","k","-">> THEN "openai"
                        ELSE "gemini"
                  /\ requests' = requests + 1
          /\ Cardinality({e \in 1..Len(events') :
                            events'[e].ev \in {"openai", "gemini"}})
                = requests']_vars

\* a request to OpenAI that failed and was the only one of the call
C14_FailedOnce ==
    /\ last_call.made
    /\ last_call.error
    /\ last_call.backend = "openai"
    /\ requests = 1

\* C15: in a cold-email request that passed validation the hr_extraction
\* call is over before the email_generation call starts, what it returned
\* is part of the email prompt, the two calls have different cache keys,
\* and whatever hr_extraction returned, None included, the request goes
\* on to the email_generation call.
C15_HrThenEmail ==
    [][/\ (last_call'.made /\ last_call'.model_type = "hr_extraction") =>
             (pc' = "email" /\ hr_info' = last_call'.result)
       /\ (last_call'.made /\ last_call'.model_type = "email_generation") =>
             /\ pc = "email"
             /\ UNCHANGED hr_info
             /\ \E h \in 1..Len(events) :
                   /\ events[h].ev = "hr_extraction"
                   /\ \A e \in (h + 1)..Len(events) :
                         events[e].ev \in {"openai", "gemini", "st.error"}
                   /\ events'[Len(events) + 1].ev = "email_generation"
             /\ Contains(Str(hr_info), last_call'.prompt)
             /\ cache_key_full("hr_extraction", last_call'.cache_key)
                   # cache_key_full("email_generation", last_call'.cache_key)]_vars

\* an email request sent to the backend after hr_extraction had failed
C15_EmailAfterFailedHr ==
    /\ last_call.made
    /\ last_call.model_type = "email_generation"
    /\ last_call.backend \in {"openai", "gemini"}
    /\ hr_info = None

\* C16 as stated: every entry call_ai_api stored holds a non-empty reply
\* of the backend, so that a call whose backend raised or returned an
\* empty text leaves nothing in the cache for a later identical call.
C16_OnlyNonEmptyStored ==
    \A k \in DOMAIN job_cache :
        origin[k].kind # "html_jobs" => Truthy(job_cache[k].response)

====
